---- MODULE Spec2Model ----
(***************************************************************************)
(* Request / session / dispatch pipeline of the GraphQL MCP bridge.         *)
(* Two entry points are modelled:                                           *)
(*   "sdk"    - mcp-graphql-server-1/src/mcpServer.js (SDK transport only)  *)
(*   "manual" - mcpServer_publicAPI.js (hand-rolled query-graphql branch)   *)
(***************************************************************************)
EXTENDS Integers, Sequences, FiniteSets, TLC

(***************************************************************************)
(* JavaScript / JSON values.  Every value is a record [t, s, f]:            *)
(*   t - the kind, s - the text of a string or number, f - the members of   *)
(*   an object (<<key, value>>) or of an array (<<"", value>>).             *)
(***************************************************************************)
JUndef == [t |-> "undef", s |-> "", f |-> <<>>]
JNull == [t |-> "null", s |-> "", f |-> <<>>]
JStr(str) == [t |-> "str", s |-> str, f |-> <<>>]
JNum(str) == [t |-> "num", s |-> str, f |-> <<>>]
JObj(members) == [t |-> "obj", s |-> "", f |-> members]
JArr(elems) == [t |-> "arr", s |-> "", f |-> [i \in 1..Len(elems) |-> <<"", elems[i]>>]]

\* JavaScript truthiness, as used by "!cachedSchema" and "a || b".
Truthy(v) ==
    CASE v.t = "undef" -> FALSE
      [] v.t = "null" -> FALSE
      [] v.t = "str" -> v.s # ""
      [] v.t = "num" -> v.s # "0"
      [] OTHER -> TRUE

\* obj.key : the value of the first member named key, undefined when absent
\* or when obj is not an object.
Prop(obj, key) ==
    IF obj.t = "obj" /\ \E i \in 1..Len(obj.f) : obj.f[i][1] = key
    THEN obj.f[CHOOSE i \in 1..Len(obj.f) :
                  /\ obj.f[i][1] = key
                  /\ \A j \in 1..(i-1) : obj.f[j][1] # key][2]
    ELSE JUndef

(***************************************************************************)
(* JSON.stringify: the text is a sequence of tokens.  A member whose value  *)
(* is undefined is left out of an object, an undefined array element is     *)
(* written as null, and stringify(undefined) yields no text at all (<<>>).  *)
(***************************************************************************)
Tok(k, str) == [k |-> k, s |-> str]

RECURSIVE StringifyValue(_)
RECURSIVE StringifyMembers(_, _, _)
StringifyMembers(members, i, isArr) ==
    IF i > Len(members) THEN <<>>
    ELSE LET key == members[i][1]
             val == members[i][2]
             rest == StringifyMembers(members, i + 1, isArr)
         IN IF isArr
            THEN (IF val.t = "undef" THEN <<Tok("null", "")>> ELSE StringifyValue(val)) \o rest
            ELSE IF val.t = "undef" THEN rest
                 ELSE <<Tok("key", key)>> \o StringifyValue(val) \o rest

StringifyValue(v) ==
    CASE v.t = "undef" -> <<>>
      [] v.t = "null" -> <<Tok("null", "")>>
      [] v.t = "str" -> <<Tok("str", v.s)>>
      [] v.t = "num" -> <<Tok("num", v.s)>>
      [] v.t = "obj" -> <<Tok("{", "")>> \o StringifyMembers(v.f, 1, FALSE) \o <<Tok("}", "")>>
      [] v.t = "arr" -> <<Tok("[", "")>> \o StringifyMembers(v.f, 1, TRUE) \o <<Tok("]", "")>>

JSONstringify(v) == StringifyValue(v)

(***************************************************************************)
(* JSON.parse of a token text, as a client decoding the payload does it.    *)
(* ParseValue returns the value that starts at token i and the index after  *)
(* it; text that is not JSON decodes to JUndef.                             *)
(***************************************************************************)
RECURSIVE ParseValue(_, _)
RECURSIVE ParseMembers(_, _, _, _)
ParseMembers(toks, i, isArr, acc) ==
    IF i > Len(toks) THEN [v |-> JUndef, n |-> i, ok |-> FALSE]
    ELSE IF isArr /\ toks[i].k = "]"
         THEN [v |-> [t |-> "arr", s |-> "", f |-> acc], n |-> i + 1, ok |-> TRUE]
    ELSE IF ~isArr /\ toks[i].k = "}"
         THEN [v |-> [t |-> "obj", s |-> "", f |-> acc], n |-> i + 1, ok |-> TRUE]
    ELSE IF isArr
         THEN LET e == ParseValue(toks, i)
              IN IF e.ok THEN ParseMembers(toks, e.n, TRUE, Append(acc, <<"", e.v>>))
                 ELSE [v |-> JUndef, n |-> i, ok |-> FALSE]
    ELSE IF toks[i].k = "key"
         THEN LET e == ParseValue(toks, i + 1)
              IN IF e.ok THEN ParseMembers(toks, e.n, FALSE, Append(acc, <<toks[i].s, e.v>>))
                 ELSE [v |-> JUndef, n |-> i, ok |-> FALSE]
    ELSE [v |-> JUndef, n |-> i, ok |-> FALSE]

ParseValue(toks, i) ==
    IF i > Len(toks) THEN [v |-> JUndef, n |-> i, ok |-> FALSE]
    ELSE CASE toks[i].k = "null" -> [v |-> JNull, n |-> i + 1, ok |-> TRUE]
           [] toks[i].k = "str" -> [v |-> JStr(toks[i].s), n |-> i + 1, ok |-> TRUE]
           [] toks[i].k = "num" -> [v |-> JNum(toks[i].s), n |-> i + 1, ok |-> TRUE]
           [] toks[i].k = "{" -> ParseMembers(toks, i + 1, FALSE, <<>>)
           [] toks[i].k = "[" -> ParseMembers(toks, i + 1, TRUE, <<>>)
           [] OTHER -> [v |-> JUndef, n |-> i, ok |-> FALSE]

JSONparse(toks) ==
    LET e == ParseValue(toks, 1)
    IN IF e.ok /\ e.n = Len(toks) + 1 THEN e.v ELSE JUndef


(***************************************************************************)
(* Program constants.                                                       *)
(***************************************************************************)
GRAPHQL_ENDPOINT == "https://countries.trevorblades.com/"
INTROSPECTION_QUERY == JStr("query IntrospectionQuery { __schema { ... } }")
SchemaNotAvailable == "Schema not available. Please run introspect-schema first."
FailedIntrospect == "Failed to introspect schema"
FailedQuery == "Failed to execute GraphQL query"
InternalServerError == "Internal server error"
Entries == {"sdk", "manual"}

(***************************************************************************)
(* Bounds and the inputs the environment draws from.                        *)
(***************************************************************************)
MaxReq == 2
MaxSessions == 2
Requests == 1..MaxReq

CountriesQuery == JStr("query { countries { name capital } }")
CountryVars == JObj(<< <<"code", JStr("FR")>> >>)
Schema1 == JObj(<< <<"__schema", JObj(<< <<"queryType", JStr("Query")>> >>)>> >>)
Schema2 == JObj(<< <<"__schema", JObj(<< <<"queryType", JStr("Root")>> >>)>> >>)
Countries ==
    JObj(<< <<"countries",
              JArr(<< JObj(<< <<"name", JStr("France")>>, <<"capital", JStr("Paris")>> >>) >>)>> >>)
\* What the upstream client can resolve with, and the messages it can reject with.
SchemaResults == {Schema1, Schema2, JNull}
QueryResults == {Countries, JNull}
UpstreamErrors == {"request to upstream failed"}

ToolCall(name, arguments) ==
    JObj(<< <<"jsonrpc", JStr("2.0")>>, <<"id", JNum("1")>>, <<"method", JStr("tools/call")>>,
            <<"params", JObj(<< <<"name", JStr(name)>>, <<"arguments", arguments>> >>)>> >>)
Bodies ==
    { ToolCall("introspect-schema", JObj(<<>>)),
      ToolCall("query-graphql", JObj(<< <<"query", CountriesQuery>> >>)),
      ToolCall("query-graphql", JObj(<< <<"query", CountriesQuery>>, <<"variables", CountryVars>> >>)),
      ToolCall("query-graphql", JObj(<<>>)),
      ToolCall("query-graphql", JUndef),
      ToolCall("query-graphql", JObj(<< <<"query", JNum("42")>> >>)),
      ToolCall("delete-everything", JObj(<<>>)),
      JObj(<< <<"jsonrpc", JStr("2.0")>>, <<"id", JNum("1")>>, <<"method", JStr("initialize")>> >>) }

VARIABLES entry, cachedSchema, sessions, sessionCounter, issued, introspected, req
vars == <<entry, cachedSchema, sessions, sessionCounter, issued, introspected, req>>

(***************************************************************************)
(* Session ids and the session manager callbacks.                           *)
(***************************************************************************)
NoSession == <<"session-", 0>>

\* `session-${++sessionCounter}` : the new counter and the id made from it.
generateSessionId_NoIncrement(counter) ==
    [counter |-> counter, id |-> <<"session-", counter + 1>>]
generateSessionId(counter) ==
    [counter |-> counter + 1, id |-> <<"session-", counter + 1>>]

\* sessions.get(sessionId): the session stored under the id, if any.
getSession(map, sessionId) == {s \in map : s.id = sessionId}
\* sessions.set(sessionId, { id, created }): replaces any entry under the id.
createSession(map, sessionId, now) ==
    {s \in map : s.id # sessionId} \cup {[id |-> sessionId, created |-> now]}
\* sessions.delete(sessionId): no-op when absent.
deleteSession(map, sessionId) == {s \in map : s.id # sessionId}

(***************************************************************************)
(* Tool results: { content: [ { type: 'text', text } ] }.                   *)
(***************************************************************************)
TextContent(text) == << [type |-> "text", text |-> text] >>
ErrorObject(message, details) == JObj(<< <<"error", JStr(message)>>, <<"details", JStr(details)>> >>)

\* catch (err) { return { content: [...] } } : the handler catches the
\* rejection of request() and returns the failure as its result.
ToolFailure_Uncaught(rq, content) ==
    [rq EXCEPT !.pc = "failed", !.outcome = "Failure", !.thrown = "UpstreamError",
               !.res = [@ EXCEPT !.headersSent = TRUE, !.status = 500, !.complete = TRUE,
                                 !.error = InternalServerError,
                                 !.details = "UpstreamError"]]
ToolFailure_Retry(rq, content) ==
    [rq EXCEPT !.pc = "connected"]
ToolFailure(rq, content) ==
    [rq EXCEPT !.pc = "handled", !.outcome = "Failure", !.content = content]

\* introspect-schema handler, after the awaited request() settled.
IntrospectSuccessContent_Wrapped(schema) ==
    TextContent(JSONstringify(JObj(<< <<"data", schema>> >>)))
IntrospectSuccessContent(schema) == TextContent(JSONstringify(schema))
IntrospectFailureContent(errMessage) == TextContent(JSONstringify(ErrorObject(FailedIntrospect, errMessage)))
\* query-graphql handler registered with the SDK.
SchemaNotReadyContent == TextContent(JSONstringify(JObj(<< <<"error", JStr(SchemaNotAvailable)>> >>)))
QuerySuccessContent(data) == TextContent(JSONstringify(JObj(<< <<"data", data>> >>)))
QueryFailureContent(errMessage) == TextContent(JSONstringify(ErrorObject(FailedQuery, errMessage)))
\* manual query-graphql branch of mcpServer_publicAPI.js.
ManualSuccessContent(data) == TextContent(JSONstringify(data))
ManualFailureContent(errMessage) == TextContent(JSONstringify(ErrorObject(FailedQuery, errMessage)))


(***************************************************************************)
(* Per-request state: the position of the async app.post('/mcp') callback,  *)
(* the express req/res pair and the transport created for the request.      *)
(* History kept with it: ready / gate (was an introspection complete, was   *)
(* the cache truthy, when the handler ran), headersAtThrow, overlap (the    *)
(* introspections in flight when this one started) and lastWrite (this      *)
(* request made the latest write of the cache) and closedAt (where the      *)
(* callback stood when the connection closed).                              *)
(***************************************************************************)
NoResponse ==
    [headersSent |-> FALSE, status |-> 0, jsonrpc |-> "", id |-> JUndef,
     content |-> <<>>, error |-> "", details |-> "", complete |-> FALSE]
IdleRequest ==
    [pc |-> "idle", body |-> JUndef, sid |-> NoSession, calls |-> <<>>, returned |-> JUndef,
     outcome |-> "none", content |-> <<>>, thrown |-> "none", res |-> NoResponse,
     closed |-> FALSE, transport |-> "none", listener |-> FALSE, sess |-> NoSession,
     ready |-> FALSE, gate |-> FALSE, headersAtThrow |-> FALSE,
     overlap |-> {}, lastWrite |-> FALSE, closedAt |-> "open"]

Params(body) == Prop(body, "params")
ToolName(body) == Prop(Params(body), "name")
Arguments(body) == Prop(Params(body), "arguments")
IsToolsCall(body) == Prop(body, "method") = JStr("tools/call")

\* request(GRAPHQL_ENDPOINT, document, variables)
UpstreamCall(document, variables) ==
    [endpoint |-> GRAPHQL_ENDPOINT, document |-> document, variables |-> variables]

\* res.json({ result: { content }, jsonrpc: '2.0', id }) and the envelope the
\* transport writes for a tool result: HTTP 200.
RpcResult(id, content) ==
    [headersSent |-> TRUE, status |-> 200, jsonrpc |-> "2.0", id |-> id,
     content |-> content, error |-> "", details |-> "", complete |-> TRUE]
\* catch (err) { if (!res.headersSent) res.status(500).json({ error, details }) }
CatchHandler_Unconditional(res, errMessage) ==
    [res EXCEPT !.headersSent = TRUE, !.status = 500, !.complete = TRUE,
                !.error = InternalServerError, !.details = errMessage]
CatchHandler(res, errMessage) ==
    IF ~res.headersSent
    THEN [res EXCEPT !.headersSent = TRUE, !.status = 500, !.complete = TRUE,
                     !.error = InternalServerError, !.details = errMessage]
    ELSE res

Init ==
    /\ entry \in Entries
    /\ cachedSchema = JNull
    /\ sessions = {}
    /\ sessionCounter = 0
    /\ issued = <<>>
    /\ introspected = FALSE
    /\ req = [r \in Requests |-> IdleRequest]

IssuedIds == {issued[i] : i \in 1..Len(issued)}

\* A POST /mcp arrives: express.json() has parsed the body.
Receive(r) ==
    /\ req[r].pc = "idle"
    /\ IF r = 1 THEN TRUE ELSE req[r - 1].pc # "idle"
    /\ \E b \in Bodies, sid \in {NoSession} \cup IssuedIds :
          req' = [req EXCEPT ![r] = [@ EXCEPT !.pc = "received", !.body = b, !.sid = sid]]
    /\ UNCHANGED <<entry, cachedSchema, sessions, sessionCounter, issued, introspected>>

(***************************************************************************)
(* mcpServer_publicAPI.js: manual handling for query-graphql.               *)
(***************************************************************************)
ManualCondition_AnyTool(body) ==
    /\ Truthy(body)
    /\ IsToolsCall(body)
    /\ Truthy(Params(body))
ManualCondition(body) ==
    /\ Truthy(body)
    /\ IsToolsCall(body)
    /\ Truthy(Params(body))
    /\ ToolName(body) = JStr("query-graphql")

\* const { query, variables } = req.body.params.arguments || {};
ManualArguments(body) == IF Truthy(Arguments(body)) THEN Arguments(body) ELSE JObj(<<>>)
ManualUpstreamCall(body) ==
    UpstreamCall(Prop(ManualArguments(body), "query"), Prop(ManualArguments(body), "variables"))

TakesManualBranch(r) == entry = "manual" /\ ManualCondition(req[r].body)

ManualQuery(r) ==
    /\ req[r].pc = "received"
    /\ TakesManualBranch(r)
    /\ req' = [req EXCEPT ![r] = [@ EXCEPT !.pc = "awaitManual", !.ready = introspected,
                                          !.gate = Truthy(cachedSchema),
                                          !.calls = Append(@, ManualUpstreamCall(req[r].body))]]
    /\ UNCHANGED <<entry, cachedSchema, sessions, sessionCounter, issued, introspected>>

ManualResolve(r) ==
    /\ req[r].pc = "awaitManual"
    /\ \E data \in QueryResults :
          req' = [req EXCEPT ![r] = [@ EXCEPT
                     !.pc = "replied", !.returned = data, !.outcome = "Success",
                     !.content = ManualSuccessContent(data),
                     !.res = RpcResult(Prop(req[r].body, "id"), ManualSuccessContent(data))]]
    /\ UNCHANGED <<entry, cachedSchema, sessions, sessionCounter, issued, introspected>>

ManualReject(r) ==
    /\ req[r].pc = "awaitManual"
    /\ \E err \in UpstreamErrors :
          req' = [req EXCEPT ![r] = [@ EXCEPT
                     !.pc = "replied", !.outcome = "Failure",
                     !.content = ManualFailureContent(err),
                     !.res = RpcResult(Prop(req[r].body, "id"), ManualFailureContent(err))]]
    /\ UNCHANGED <<entry, cachedSchema, sessions, sessionCounter, issued, introspected>>

(***************************************************************************)
(* SDK path: new StreamableHTTPServerTransport({ sessionManager });         *)
(* await server.connect(transport); await transport.handleRequest(...)      *)
(***************************************************************************)
Connect(r) ==
    /\ req[r].pc = "received"
    /\ ~TakesManualBranch(r)
    /\ req' = [req EXCEPT ![r] = [@ EXCEPT !.pc = "connected", !.transport = "open"]]
    /\ UNCHANGED <<entry, cachedSchema, sessions, sessionCounter, issued, introspected>>


(***************************************************************************)
(* Tool dispatch inside transport.handleRequest: the tool name is resolved  *)
(* against the tools registered with server.tool, the arguments are checked *)
(* against the declared shape, then the handler runs.                       *)
(***************************************************************************)
KnownTools == {JStr("introspect-schema"), JStr("query-graphql")}

\* z.object({}) for introspect-schema; { query: z.string(), variables:
\* z.record(z.any()).optional() } for query-graphql.
ValidArguments(name, arguments) ==
    IF name = JStr("introspect-schema")
    THEN arguments.t = "obj"
    ELSE /\ arguments.t = "obj"
         /\ Prop(arguments, "query").t = "str"
         /\ Prop(arguments, "variables").t \in {"undef", "obj"}

\* getSession(sessionId): the session the request's header names, if live.
ResolveSession(map, sid) == IF getSession(map, sid) # {} THEN sid ELSE NoSession

Dispatchable(r) ==
    /\ req[r].pc = "connected"
    /\ IsToolsCall(req[r].body)

\* A dispatch failure is thrown out of handleRequest and lands in the catch
\* block of app.post('/mcp').
DispatchUnknownTool(r) ==
    /\ Dispatchable(r)
    /\ ToolName(req[r].body) \notin KnownTools
    /\ req' = [req EXCEPT ![r] = [@ EXCEPT
                  !.pc = "failed", !.outcome = "UnknownTool", !.thrown = "UnknownTool",
                  !.headersAtThrow = req[r].res.headersSent,
                  !.sess = ResolveSession(sessions, req[r].sid),
                  !.res = CatchHandler(req[r].res, "UnknownTool")]]
    /\ UNCHANGED <<entry, cachedSchema, sessions, sessionCounter, issued, introspected>>

DispatchInvalidArguments(r) ==
    /\ Dispatchable(r)
    /\ ToolName(req[r].body) \in KnownTools
    /\ ~ValidArguments(ToolName(req[r].body), Arguments(req[r].body))
    /\ req' = [req EXCEPT ![r] = [@ EXCEPT
                  !.pc = "failed", !.outcome = "InvalidArguments", !.thrown = "InvalidArguments",
                  !.headersAtThrow = req[r].res.headersSent,
                  !.sess = ResolveSession(sessions, req[r].sid),
                  !.res = CatchHandler(req[r].res, "InvalidArguments")]]
    /\ UNCHANGED <<entry, cachedSchema, sessions, sessionCounter, issued, introspected>>

Invokes(r, name) ==
    /\ Dispatchable(r)
    /\ ToolName(req[r].body) = JStr(name)
    /\ ValidArguments(ToolName(req[r].body), Arguments(req[r].body))

(***************************************************************************)
(* introspect-schema handler.                                               *)
(***************************************************************************)
\* const schema = await request(GRAPHQL_ENDPOINT, INTROSPECTION_QUERY);
IntrospectUpstreamCall == UpstreamCall(INTROSPECTION_QUERY, JUndef)

IntrospectCall(r) ==
    /\ Invokes(r, "introspect-schema")
    /\ req' = [req EXCEPT ![r] = [@ EXCEPT
                  !.pc = "awaitIntrospect",
                  !.overlap = {q \in Requests : req[q].pc = "awaitIntrospect"},
                  !.sess = ResolveSession(sessions, req[r].sid),
                  !.calls = Append(@, IntrospectUpstreamCall)]]
    /\ UNCHANGED <<entry, cachedSchema, sessions, sessionCounter, issued, introspected>>

\* cachedSchema = schema;
StoreSchema_Wrapped(schema) == JObj(<< <<"data", schema>> >>)
StoreSchema(schema) == schema
\* catch (err) { ... }: no assignment to cachedSchema.
CacheAfterIntrospectFailure_Cleared(old) == JNull
CacheAfterIntrospectFailure(old) == old

IntrospectResolve_KeepFirst(r) ==
    /\ req[r].pc = "awaitIntrospect"
    /\ \E schema \in SchemaResults :
          /\ cachedSchema' = IF Truthy(cachedSchema) THEN cachedSchema ELSE StoreSchema(schema)
          /\ req' = [q \in Requests |->
                        IF q = r
                        THEN [req[r] EXCEPT
                                !.pc = "handled", !.returned = schema, !.outcome = "Success",
                                !.lastWrite = TRUE,
                                !.content = IntrospectSuccessContent(schema)]
                        ELSE [req[q] EXCEPT !.lastWrite = FALSE]]
    /\ introspected' = TRUE
    /\ UNCHANGED <<entry, sessions, sessionCounter, issued>>

IntrospectResolve(r) ==
    /\ req[r].pc = "awaitIntrospect"
    /\ \E schema \in SchemaResults :
          /\ cachedSchema' = StoreSchema(schema)
          /\ req' = [q \in Requests |->
                        IF q = r
                        THEN [req[r] EXCEPT
                                !.pc = "handled", !.returned = schema, !.outcome = "Success",
                                !.lastWrite = TRUE,
                                !.content = IntrospectSuccessContent(schema)]
                        ELSE [req[q] EXCEPT !.lastWrite = FALSE]]
    /\ introspected' = TRUE
    /\ UNCHANGED <<entry, sessions, sessionCounter, issued>>

IntrospectReject(r) ==
    /\ req[r].pc = "awaitIntrospect"
    /\ \E err \in UpstreamErrors :
          req' = [req EXCEPT ![r] = ToolFailure(req[r], IntrospectFailureContent(err))]
    /\ cachedSchema' = CacheAfterIntrospectFailure(cachedSchema)
    /\ UNCHANGED <<entry, sessions, sessionCounter, issued, introspected>>

(***************************************************************************)
(* query-graphql handler registered with the SDK.                           *)
(***************************************************************************)
\* if (!cachedSchema)
SchemaNotReady(schema) == ~Truthy(schema)

\* const data = await request(GRAPHQL_ENDPOINT, query, variables);
QueryUpstreamCall_DropVariables(arguments) ==
    UpstreamCall(Prop(arguments, "query"), JUndef)
QueryUpstreamCall(arguments) ==
    UpstreamCall(Prop(arguments, "query"), Prop(arguments, "variables"))

QueryNotReady(r) ==
    /\ Invokes(r, "query-graphql")
    /\ SchemaNotReady(cachedSchema)
    /\ req' = [req EXCEPT ![r] = [@ EXCEPT
                  !.pc = "handled", !.outcome = "Failure", !.ready = introspected,
                  !.gate = Truthy(cachedSchema),
                  !.sess = ResolveSession(sessions, req[r].sid),
                  !.content = SchemaNotReadyContent]]
    /\ UNCHANGED <<entry, cachedSchema, sessions, sessionCounter, issued, introspected>>

QueryCall(r) ==
    /\ Invokes(r, "query-graphql")
    /\ ~SchemaNotReady(cachedSchema)
    /\ req' = [req EXCEPT ![r] = [@ EXCEPT
                  !.pc = "awaitQuery", !.ready = introspected,
                  !.gate = Truthy(cachedSchema),
                  !.sess = ResolveSession(sessions, req[r].sid),
                  !.calls = Append(@, QueryUpstreamCall(Arguments(req[r].body)))]]
    /\ UNCHANGED <<entry, cachedSchema, sessions, sessionCounter, issued, introspected>>

QueryResolve_CachesData(r) ==
    /\ req[r].pc = "awaitQuery"
    /\ \E data \in QueryResults :
          /\ cachedSchema' = data
          /\ req' = [req EXCEPT ![r] = [@ EXCEPT
                        !.pc = "handled", !.returned = data, !.outcome = "Success",
                        !.content = QuerySuccessContent(data)]]
    /\ UNCHANGED <<entry, sessions, sessionCounter, issued, introspected>>

QueryResolve(r) ==
    /\ req[r].pc = "awaitQuery"
    /\ \E data \in QueryResults :
          req' = [req EXCEPT ![r] = [@ EXCEPT
                     !.pc = "handled", !.returned = data, !.outcome = "Success",
                     !.content = QuerySuccessContent(data)]]
    /\ UNCHANGED <<entry, cachedSchema, sessions, sessionCounter, issued, introspected>>

QueryReject(r) ==
    /\ req[r].pc = "awaitQuery"
    /\ \E err \in UpstreamErrors :
          req' = [req EXCEPT ![r] = ToolFailure(req[r], QueryFailureContent(err))]
    /\ UNCHANGED <<entry, cachedSchema, sessions, sessionCounter, issued, introspected>>


(***************************************************************************)
(* Session establishment by the transport for a request that is not a tool  *)
(* call, through the sessionManager callbacks handed to it.                 *)
(***************************************************************************)
Clock == {1000, 1001}

TransportCreateSession(r) ==
    /\ req[r].pc = "connected"
    /\ ~IsToolsCall(req[r].body)
    /\ getSession(sessions, req[r].sid) = {}
    /\ sessionCounter < MaxSessions
    /\ LET g == generateSessionId(sessionCounter)
       IN /\ sessionCounter' = g.counter
          /\ issued' = Append(issued, g.id)
          /\ \E now \in Clock : sessions' = createSession(sessions, g.id, now)
          /\ req' = [req EXCEPT ![r] = [@ EXCEPT
                        !.pc = "handled", !.outcome = "Protocol", !.sess = g.id]]
    /\ UNCHANGED <<entry, cachedSchema, introspected>>

TransportLookupSession(r) ==
    /\ req[r].pc = "connected"
    /\ ~IsToolsCall(req[r].body)
    /\ getSession(sessions, req[r].sid) # {}
    /\ req' = [req EXCEPT ![r] = [@ EXCEPT
                  !.pc = "handled", !.outcome = "Protocol", !.sess = req[r].sid]]
    /\ UNCHANGED <<entry, cachedSchema, sessions, sessionCounter, issued, introspected>>

(***************************************************************************)
(* Response envelope: the transport wraps the handler's result into         *)
(* { jsonrpc, id, result: { content } } and writes it with HTTP 200.        *)
(***************************************************************************)
TransportSend(r) ==
    /\ req[r].pc = "handled"
    /\ req' = [req EXCEPT ![r] = [@ EXCEPT
                  !.pc = "sent",
                  !.res = RpcResult(Prop(req[r].body, "id"), req[r].content)]]
    /\ UNCHANGED <<entry, cachedSchema, sessions, sessionCounter, issued, introspected>>

\* The response as the transport leaves it when it throws: untouched, or
\* begun (status line and headers written, body not finished).
FaultedResponse(res, begun) ==
    IF begun THEN [res EXCEPT !.headersSent = TRUE, !.status = 200] ELSE res

\* handleRequest throws while building or writing the response, before or
\* after the response has begun; the catch block of app.post runs.
TransportFault(r) ==
    /\ req[r].pc = "handled"
    /\ \E begun \in BOOLEAN :
          req' = [req EXCEPT ![r] = [@ EXCEPT
                     !.pc = "failed", !.thrown = "TransportFault",
                     !.headersAtThrow = begun,
                     !.res = CatchHandler(FaultedResponse(req[r].res, begun),
                                          "TransportFault")]]
    /\ UNCHANGED <<entry, cachedSchema, sessions, sessionCounter, issued, introspected>>

\* transport.close(): tears the transport down and, through the session
\* manager, the session bound to it.
TransportClose(rq) == [rq EXCEPT !.transport = "closed"]

\* res.on('close', () => { transport.close(); });  registered only after
\* handleRequest has resolved.  A listener added after the connection has
\* closed is never called.
RegisterClose(r) ==
    /\ req[r].pc = "sent"
    /\ req' = [req EXCEPT ![r] = [@ EXCEPT !.pc = "done", !.listener = TRUE]]
    /\ UNCHANGED <<entry, cachedSchema, sessions, sessionCounter, issued, introspected>>

\* The client's connection closes: res emits 'close' once.
ClientClose_Cancels(r) ==
    /\ req[r].pc # "idle"
    /\ ~req[r].closed
    /\ req' = [req EXCEPT ![r] = [@ EXCEPT !.closed = TRUE, !.closedAt = req[r].pc,
                                          !.pc = "failed"]]
    /\ UNCHANGED <<entry, cachedSchema, sessions, sessionCounter, issued, introspected>>

ClientClose(r) ==
    /\ req[r].pc # "idle"
    /\ ~req[r].closed
    /\ IF req[r].listener
       THEN /\ req' = [req EXCEPT ![r] =
                         TransportClose([@ EXCEPT !.closed = TRUE, !.closedAt = req[r].pc])]
            /\ sessions' = deleteSession(sessions, req[r].sess)
       ELSE /\ req' = [req EXCEPT ![r] = [@ EXCEPT !.closed = TRUE, !.closedAt = req[r].pc]]
            /\ UNCHANGED sessions
    /\ UNCHANGED <<entry, cachedSchema, sessionCounter, issued, introspected>>

Next ==
    \E r \in Requests :
        \/ Receive(r)
        \/ ManualQuery(r)
        \/ ManualResolve(r)
        \/ ManualReject(r)
        \/ Connect(r)
        \/ DispatchUnknownTool(r)
        \/ DispatchInvalidArguments(r)
        \/ IntrospectCall(r)
        \/ IntrospectResolve(r)
        \/ IntrospectReject(r)
        \/ QueryNotReady(r)
        \/ QueryCall(r)
        \/ QueryResolve(r)
        \/ QueryReject(r)
        \/ TransportCreateSession(r)
        \/ TransportLookupSession(r)
        \/ TransportSend(r)
        \/ TransportFault(r)
        \/ RegisterClose(r)
        \/ ClientClose(r)

Spec == Init /\ [][Next]_vars


(***************************************************************************)
(* Vocabulary of the properties.                                            *)
(***************************************************************************)
IsTool(r, name) ==
    /\ req[r].pc # "idle"
    /\ IsToolsCall(req[r].body)
    /\ ToolName(req[r].body) = JStr(name)
\* The request has gone past dispatch (or past the manual branch test).
Dispatched(r) == req[r].pc \notin {"idle", "received", "connected"}
\* The handler's (or the manual branch's) result for the request is known.
HasToolResult(r) == req[r].outcome \in {"Success", "Failure"}
PayloadText(r) == req[r].content[1].text
Payload(r) == JSONparse(PayloadText(r))
Keys(obj) == {obj.f[i][1] : i \in 1..Len(obj.f)}

\* C1: a query-graphql call handled while no introspect-schema call has yet
\* completed successfully returns exactly the "Schema not available..."
\* failure and issues no upstream call, in both entry points.
C1_QueryBeforeIntrospection ==
    \A r \in Requests :
        (IsTool(r, "query-graphql") /\ HasToolResult(r) /\ ~req[r].ready) =>
            /\ req[r].calls = <<>>
            /\ req[r].outcome = "Failure"
            /\ Prop(Payload(r), "error") = JStr(SchemaNotAvailable)

\* C2: when the upstream call of an introspect-schema request fails, the
\* step that completes it leaves the Schema Cache exactly as it was.
C2_FailedIntrospectKeepsCache ==
    [][\A r \in Requests :
          (req[r].pc = "awaitIntrospect" /\ req'[r].pc # "awaitIntrospect"
              /\ req'[r].outcome = "Failure")
          => cachedSchema' = cachedSchema]_vars
\* A failed introspection has completed while a schema cached earlier is
\* still in place.
C2_Witness ==
    \E r \in Requests :
        /\ IsTool(r, "introspect-schema")
        /\ req[r].outcome = "Failure"
        /\ cachedSchema \in {Schema1, Schema2}

\* C3: right after an introspect-schema call completes successfully the
\* Schema Cache holds exactly the value the upstream client returned to it.
C3_CacheHoldsReturnedSchema ==
    [][\A r \in Requests :
          (req[r].pc = "awaitIntrospect" /\ req'[r].pc # "awaitIntrospect"
              /\ req'[r].outcome = "Success")
          => cachedSchema' = req'[r].returned]_vars
\* An introspection that replaced an older cached schema by a different one.
C3_Witness ==
    \E r, q \in Requests :
        /\ IsTool(r, "introspect-schema") /\ req[r].outcome = "Success"
        /\ IsTool(q, "introspect-schema") /\ req[q].outcome = "Success"
        /\ req[q].returned # req[r].returned
        /\ req[r].returned = Schema2
        /\ cachedSchema = Schema2

\* C4: when query-graphql runs after a successful introspection and the
\* upstream client returns R, the single text payload decodes to { data: R },
\* in both entry points.
C4_QueryResultWrappedInData ==
    \A r \in Requests :
        (IsTool(r, "query-graphql") /\ req[r].outcome = "Success" /\ req[r].ready) =>
            /\ Len(req[r].content) = 1
            /\ req[r].content[1].type = "text"
            /\ Payload(r) = JObj(<< <<"data", req[r].returned>> >>)


\* The request went through the SDK transport to a registered tool handler.
ViaRegisteredHandler(r) == HasToolResult(r) /\ req[r].transport # "none"
OneTextBlock(r) == Len(req[r].content) = 1 /\ req[r].content[1].type = "text"

\* C5 as stated: a successful introspect-schema payload is the JSON of
\* { data: <schema> }; every tool success payload has the { data } shape and
\* every tool failure payload the { error, details } shape.
C5_PayloadShapesAsStated ==
    \A r \in Requests :
        ViaRegisteredHandler(r) =>
            /\ OneTextBlock(r)
            /\ req[r].outcome = "Success" => Payload(r) = JObj(<< <<"data", req[r].returned>> >>)
            /\ req[r].outcome = "Failure" =>
                  Payload(r).t = "obj" /\ Keys(Payload(r)) = {"error", "details"}

\* C5 amended: a successful introspect-schema payload is the JSON of the
\* schema document itself; a query-graphql success payload of the registered
\* handler is { data: R }; an upstream failure payload is { error, details }
\* and the schema-not-ready payload is { error } alone.
C5_PayloadShapes ==
    \A r \in Requests :
        ViaRegisteredHandler(r) =>
            /\ OneTextBlock(r)
            /\ (IsTool(r, "introspect-schema") /\ req[r].outcome = "Success")
                  => Payload(r) = req[r].returned
            /\ (IsTool(r, "query-graphql") /\ req[r].outcome = "Success")
                  => Payload(r) = JObj(<< <<"data", req[r].returned>> >>)
            /\ (IsTool(r, "introspect-schema") /\ req[r].outcome = "Failure")
                  => \E err \in UpstreamErrors : Payload(r) = ErrorObject(FailedIntrospect, err)
            /\ (IsTool(r, "query-graphql") /\ req[r].outcome = "Failure" /\ req[r].calls # <<>>)
                  => \E err \in UpstreamErrors : Payload(r) = ErrorObject(FailedQuery, err)
            /\ (IsTool(r, "query-graphql") /\ req[r].outcome = "Failure" /\ req[r].calls = <<>>)
                  => Payload(r) = JObj(<< <<"error", JStr(SchemaNotAvailable)>> >>)
\* A successful introspection of a real schema document and a schema-not-ready
\* failure have both produced their payloads.
C5_Witness ==
    \E r, q \in Requests :
        /\ ViaRegisteredHandler(r) /\ IsTool(r, "introspect-schema")
        /\ req[r].outcome = "Success" /\ req[r].returned = Schema1
        /\ ViaRegisteredHandler(q) /\ IsTool(q, "query-graphql")
        /\ req[q].outcome = "Failure" /\ req[q].calls = <<>>

\* C6: a tool-level failure is returned by the handler as a result: it is
\* answered with HTTP 200 and a JSON-RPC result whose text encodes the error
\* object; the failure itself never throws into the HTTP 500 path.
Answered(r) == req[r].pc \in {"sent", "done", "replied"}
C6_ToolFailuresAreResults ==
    \A r \in Requests :
        req[r].outcome = "Failure" =>
            /\ req[r].thrown \in {"none", "TransportFault"}
            /\ req[r].res.status = 500 => req[r].thrown = "TransportFault"
            /\ (req[r].pc = "handled") => (req[r].thrown = "none" /\ ~req[r].res.headersSent)
            /\ Answered(r) =>
                  /\ req[r].res.status = 200
                  /\ req[r].res.jsonrpc = "2.0"
                  /\ req[r].res.content = req[r].content
                  /\ OneTextBlock(r)
                  /\ Prop(Payload(r), "error").t = "str"
\* An upstream failure and a schema-not-ready failure have both been answered.
C6_Witness ==
    \E r, q \in Requests :
        /\ req[r].outcome = "Failure" /\ req[r].calls # <<>> /\ Answered(r)
        /\ req[q].outcome = "Failure" /\ req[q].calls = <<>> /\ Answered(q)

\* C7: a tools/call request naming neither introspect-schema nor
\* query-graphql ends in UnknownTool, issues no upstream call, and no step of
\* it changes the Schema Cache or the Session Registry.
UnknownToolBody(body) == IsToolsCall(body) /\ ToolName(body) \notin KnownTools
C8_ValidationBeforeHandler ==
    \A r \in Requests :
        (/\ IsTool(r, "query-graphql")
         /\ ~ValidArguments(ToolName(req[r].body), Arguments(req[r].body))
         /\ Dispatched(r)) =>
            /\ req[r].outcome = "InvalidArguments"
            /\ req[r].calls = <<>>

\* C9: an upstream call issued by query-graphql carries exactly the query and
\* the variables of the request's arguments and targets the fixed endpoint.
C9_ArgumentsForwardedUnmodified ==
    \A r \in Requests :
        (IsTool(r, "query-graphql") /\ req[r].calls # <<>>) =>
            /\ Len(req[r].calls) = 1
            /\ req[r].calls[1].endpoint = "https://countries.trevorblades.com/"
            /\ req[r].calls[1].document = Prop(Arguments(req[r].body), "query")
            /\ req[r].calls[1].variables = Prop(Arguments(req[r].body), "variables")
\* One call was issued with variables and one without.
C9_Witness ==
    \E r, q \in Requests :
        /\ IsTool(r, "query-graphql") /\ req[r].calls # <<>>
        /\ req[r].calls[1].variables = CountryVars
        /\ IsTool(q, "query-graphql") /\ req[q].calls # <<>>
        /\ req[q].calls[1].document = CountriesQuery
        /\ req[q].calls[1].variables = JUndef

\* C10: the ids produced by generateSessionId are pairwise distinct, and a
\* new id never equals one produced earlier or one of a live session.
LiveIds == {s.id : s \in sessions}
C10_SessionIdsDistinct ==
    /\ [](\A i, j \in 1..Len(issued) : i # j => issued[i] # issued[j])
    /\ [][Len(issued') > Len(issued) =>
            issued'[Len(issued')] \notin (IssuedIds \cup LiveIds)]_vars
\* Two ids have been produced and the session of the first was deleted
\* before the second was produced or afterwards.
C10_Witness ==
    /\ Len(issued) >= 2
    /\ issued[1] \notin LiveIds


\* C11: both entry points satisfy the same dispatch contract.  What
\* mcpServer.js answers to a query-graphql request is a function of the
\* request, of the cache when the handler runs and of what the upstream
\* client returns; every query-graphql request, whichever entry point runs,
\* must show that outcome, those upstream calls and that payload.
C11_EntryPointsAgree ==
    \A r \in Requests :
        (IsTool(r, "query-graphql") /\ Dispatched(r)) =>
            IF ~ValidArguments(ToolName(req[r].body), Arguments(req[r].body))
            THEN req[r].outcome = "InvalidArguments" /\ req[r].calls = <<>>
            ELSE IF ~req[r].gate
            THEN /\ req[r].calls = <<>>
                 /\ req[r].outcome = "Failure"
                 /\ req[r].content = SchemaNotReadyContent
            ELSE /\ req[r].calls = << QueryUpstreamCall(Arguments(req[r].body)) >>
                 /\ req[r].outcome = "Success"
                       => req[r].content = QuerySuccessContent(req[r].returned)
                 /\ req[r].outcome = "Failure"
                       => \E err \in UpstreamErrors : req[r].content = QueryFailureContent(err)


\* C12: when handling a request throws, HTTP 500 with { error, details } is
\* written exactly when no headers had been sent; once the response has
\* begun nothing further is written, and a finished response is never
\* written again.
C12_Http500OnlyBeforeHeaders ==
    /\ [](\A r \in Requests :
            req[r].thrown # "none" =>
                IF req[r].headersAtThrow
                THEN /\ req[r].res.status # 500
                     /\ req[r].res.error = ""
                     /\ req[r].res.details = ""
                     /\ ~req[r].res.complete
                ELSE /\ req[r].res.status = 500
                     /\ req[r].res.error = "Internal server error"
                     /\ req[r].res.details = req[r].thrown
                     /\ req[r].res.complete)
    /\ [][\A r \in Requests : req[r].res.complete => req'[r].res = req[r].res]_vars
\* One request threw after its response had begun and was only logged, another
\* threw before any header and got the 500.
C12_Witness ==
    \E r, q \in Requests :
        /\ req[r].thrown = "TransportFault" /\ req[r].headersAtThrow
        /\ req[r].res.status = 200
        /\ req[q].thrown # "none" /\ ~req[q].headersAtThrow
        /\ req[q].res.status = 500


\* C13: the Schema Cache is last-write-wins.  It holds the value returned to
\* the introspect-schema call that completed last, whichever call started
\* first, and the readiness gate of every query-graphql handler that runs
\* afterwards decides on that value.
C13_LastWriteWins ==
    /\ [](\A w \in Requests : req[w].lastWrite => cachedSchema = req[w].returned)
    /\ [](introspected => \E w \in Requests : req[w].lastWrite)
    /\ [][\A q \in Requests :
            (/\ req[q].pc = "connected"
             /\ req'[q].pc \in {"awaitQuery", "handled"}
             /\ IsTool(q, "query-graphql"))
            => (req'[q].pc = "awaitQuery"
                   <=> \E w \in Requests : req[w].lastWrite /\ Truthy(req[w].returned))]_vars
\* Two introspections overlapped; the one that started first completed last
\* and its value, not the other's, is in the cache.
C13_Witness ==
    \E r, q \in Requests :
        /\ r \in req[q].overlap
        /\ req[r].outcome = "Success" /\ req[q].outcome = "Success"
        /\ req[r].returned = Schema1 /\ req[q].returned = Schema2
        /\ req[r].lastWrite
        /\ cachedSchema = Schema1


Awaiting == {"awaitIntrospect", "awaitQuery", "awaitManual"}

\* C14 as stated: the upstream call of a request whose connection has closed
\* runs on, and its result is discarded: its completion has no effect on the
\* shared state.
C14_ResultDiscardedAsStated ==
    [][\A r \in Requests :
          (req[r].closed /\ req[r].pc \in Awaiting /\ req'[r].pc # req[r].pc)
          => (cachedSchema' = cachedSchema /\ sessions' = sessions)]_vars

\* C14 amended: closing the connection cancels nothing.  The close leaves the
\* callback where it is with its upstream call in flight, the call can still
\* resolve or reject, and the handler carries on as for a connected client:
\* a successful introspect-schema still stores its result in the Schema Cache.
C14_CloseDoesNotCancel ==
    /\ [][\A r \in Requests :
            (~req[r].closed /\ req'[r].closed) =>
                /\ req'[r].pc = req[r].pc
                /\ req'[r].calls = req[r].calls
                /\ req'[r].outcome = req[r].outcome]_vars
    /\ [](\A r \in Requests :
            req[r].closed =>
                /\ req[r].pc = "awaitIntrospect"
                      => (ENABLED IntrospectResolve(r) /\ ENABLED IntrospectReject(r))
                /\ req[r].pc = "awaitQuery"
                      => (ENABLED QueryResolve(r) /\ ENABLED QueryReject(r))
                /\ req[r].pc = "awaitManual"
                      => (ENABLED ManualResolve(r) /\ ENABLED ManualReject(r)))
    /\ [][\A r \in Requests :
            (/\ req[r].closed /\ req[r].pc = "awaitIntrospect"
             /\ req'[r].pc # req[r].pc /\ req'[r].outcome = "Success")
            => cachedSchema' = req'[r].returned]_vars
\* A connection closed while its introspection was in flight; the call then
\* resolved and replaced the schema cached before.
C14_Witness ==
    \E r, q \in Requests :
        /\ req[r].closedAt = "awaitIntrospect"
        /\ req[r].outcome = "Success" /\ req[r].lastWrite
        /\ req[q].outcome = "Success" /\ req[q].returned = Schema2
        /\ req[q].closedAt = "open"
        /\ req[r].returned = Schema1
        /\ cachedSchema = Schema1


\* The callback of app.post has run to its end for the request.
CallbackEnded(r) == req[r].pc \in {"replied", "done", "failed"}
\* The connection closed before a response had been written.
ClosedBeforeResponse(r) ==
    req[r].closedAt \in {"received", "connected", "handled"} \cup Awaiting

\* C15: when the connection of a request closes before the request
\* completes, the transport created for it gets closed: once the callback
\* has ended (no step of the request is left), transport.close has run.
C15_CloseClosesTransport ==
    \A r \in Requests :
        (ClosedBeforeResponse(r) /\ req[r].transport # "none" /\ CallbackEnded(r))
            => req[r].transport = "closed"

\* The response has been written in full: the 200 envelope or the 500 body.
Sent(r) == req[r].res.complete
\* The connection closed before the response was complete.
Aborted(r) == req[r].closed /\ (ClosedBeforeResponse(r) \/ ~req[r].res.complete)

\* C16: a received request ends in one of the terminal states Sent or
\* Aborted: once the callback of app.post has run to its end, so that the
\* server has no step left for the request, the response has been written in
\* full or the connection has closed before completion.
C16_EndsSentOrAborted ==
    \A r \in Requests : CallbackEnded(r) => (Sent(r) \/ Aborted(r))

\* C17: once an introspect-schema call has completed successfully, whatever
\* value it resolved with (null included), every query-graphql call handled
\* afterwards passes the readiness gate and issues its upstream call.
C17_IntrospectedCachePassesGate ==
    \A r \in Requests :
        (IsTool(r, "query-graphql") /\ HasToolResult(r) /\ req[r].ready) =>
            req[r].calls # <<>>

\* C18: the Schema Cache is absent at process start and its value changes
\* only in the step in which an introspect-schema call completes
\* successfully, to the value that call resolved with; every other step
\* (query-graphql in any outcome, unknown tools, session operations, the
\* manual branch, sending, closing) leaves it as it was.
C18_CacheChangesOnlyOnIntrospectSuccess ==
    /\ cachedSchema = JNull
    /\ [][cachedSchema' # cachedSchema =>
            \E r \in Requests :
                /\ IsTool(r, "introspect-schema")
                /\ req[r].pc = "awaitIntrospect"
                /\ req'[r].outcome = "Success"
                /\ cachedSchema' = req'[r].returned]_vars

\* A query-graphql call has succeeded after an introspection, and the cache
\* still holds the schema that introspection resolved with.
C18_Witness ==
    \E r, q \in Requests :
        /\ IsTool(q, "introspect-schema") /\ req[q].outcome = "Success"
        /\ IsTool(r, "query-graphql") /\ req[r].outcome = "Success"
        /\ req[r].returned = Countries
        /\ Truthy(cachedSchema) /\ cachedSchema = req[q].returned

\* The response of the request has been written by the handler's path.
Responded(r) == req[r].pc \in {"sent", "done", "replied"}

\* C19: a tool invocation issues at most one upstream call and produces one
\* result: a response that has been written carries the result of its own
\* request under that request's id, and once the result of a request is known
\* no further call is issued for it and the result is not replaced
\* (nothing is retried, a failure is reported once).
C19_OneCallOneResult ==
    /\ [](\A r \in Requests :
            /\ Len(req[r].calls) <= 1
            /\ Responded(r) =>
                  /\ HasToolResult(r) \/ req[r].outcome = "Protocol"
                  /\ req[r].res.content = req[r].content
                  /\ req[r].res.id = Prop(req[r].body, "id"))
    /\ [][\A r \in Requests :
            /\ req[r].outcome # "none" =>
                  /\ req'[r].calls = req[r].calls
                  /\ req'[r].outcome = req[r].outcome
                  /\ req'[r].content = req[r].content
            /\ req[r].res.complete => req'[r].res = req[r].res]_vars

\* An upstream call has failed and the failure has been reported in the
\* response of the request that made the call, after exactly one call.
C19_Witness ==
    \E r \in Requests :
        /\ Responded(r)
        /\ req[r].outcome = "Failure"
        /\ Len(req[r].calls) = 1
        /\ req[r].res.content = req[r].content
        /\ Prop(Payload(r), "details").t = "str"
====
